---- MODULE Spec2Model ----
(***************************************************************************)
(* Model of sigstore's TUF trust-root cache: sigstore/_trust_root.py       *)
(* (TrustUpdater) and sigstore/_store/__init__.py (Store).                 *)
(*                                                                         *)
(* The state is the file system (the bundled package resources, the cache  *)
(* directory tuf_dir, the file ~/.sigstore/root/targets/root.json that     *)
(* Store._read_binary opens), the wall clock, and for every process its    *)
(* position inside TrustUpdater.__init__ / TrustUpdater.update together    *)
(* with a log of the calls the current update() made on tuf.ngclient's     *)
(* Updater.                                                                *)
(***************************************************************************)
EXTENDS Naturals, Sequences, FiniteSets

\* Latest instant of the wall clock the model explores.
MaxTime == 3

\* Processes (CLI invocations) that may use the cache path.
Procs == {"p1", "p2"}

\* A file that does not exist.
Absent == "absent"

\* A file whose bytes Metadata.from_file cannot deserialize.
Corrupt == "corrupt"

\* metadata/timestamp.json: no file, an unparseable file, or signed Timestamp
\* metadata with its expiry instant.
NoTimestamp == [kind |-> Absent, expires |-> 0]
CorruptTimestamp == [kind |-> Corrupt, expires |-> 0]
SignedTimestamp(expires) == [kind |-> "signed", expires |-> expires]

(***************************************************************************)
(* Byte strings and their SHA-256 digests.  hashlib.sha256 is modelled as  *)
(* an injective table over the byte strings of the model.                  *)
(***************************************************************************)
\* root.json documents are "root4" (the bundled 4.root.json), "rootTampered"
\* (a tampered one) and "root5" (a newer root the repository rotates to).

\* Contents of a target file: the bundled copy, the copy the repository lists
\* now, and bytes that match no listing.
Contents == {"bundled", "current", "bogus"}

sha256(bytes) ==
    CASE bytes = "root4"        -> "8e34a5c2"
      [] bytes = "rootTampered" -> "66d1f0aa"
      [] bytes = "root5"        -> "f3c90b17"
      [] bytes = "bundled"      -> "1b0c22d4"
      [] bytes = "current"      -> "a71e5c09"
      [] bytes = "bogus"        -> "0dd4e8f1"
      [] bytes = "legacy"       -> "5c2f9e63"
      [] OTHER                  -> "e3b0c442"

\* corresponds to public good 4.root.json
EXPECTED_ROOT_DIGEST == "8e34a5c2"

\* The bundled default targets copied by _prepare_local_cache (two of the
\* eight names of the list are kept).
SIGSTORE_TARGETS == {"ctfe.pub", "rekor.pub"}

\* targets_md.signed.targets: the top-level Targets listing, in the order the
\* dict is iterated.
TopLevelTargets == <<"ctfe.pub", "fulcio_v1.crt.pem", "rekor.pub">>

Range(s) == {s[i] : i \in 1..Len(s)}

\* line 182: the usages update() walks, in order.
Usages == <<"fulcio", "rekor", "ct_log", "custom_key_material">>

\* line 185: f"{usage}/**/*", as its "/"-separated segments.
usage_pattern(usage) == <<usage, "**", "*">>

\* The delegated Targets roles of the repository, in delegation order, each
\* with its path patterns (as segments) and its listing: target, content the
\* listing's hash stands for, and the custom sigstore status.  "rekor" and
\* "rekor-prod" both list rekor/rekor.0.pub, with different hashes; no role
\* is delegated anything under "fulcio".
DelegatedRoles ==
    << [name |-> "rekor",
        paths |-> {<<"rekor", "**", "*">>},
        targets |-> {[target |-> "rekor/rekor.0.pub", content |-> "legacy",
                      status |-> "Active"],
                     [target |-> "rekor/rekor.old.pub", content |-> "current",
                      status |-> "Expired"]}],
       [name |-> "rekor-prod",
        paths |-> {<<"rekor", "*", "*">>},
        targets |-> {[target |-> "rekor/rekor.0.pub", content |-> "current",
                      status |-> "Active"]}],
       [name |-> "ctlog",
        paths |-> {<<"ct_log", "**", "*">>},
        targets |-> {[target |-> "ct_log/ctfe.1.pub", content |-> "current",
                      status |-> "Active"]}] >>

\* fnmatch.fnmatch on one path segment (the names of the model hold no other
\* wildcard than a whole "*" or "**").
fnmatch(name, pat) == pat = "*" \/ pat = "**" \/ pat = name

\* DelegatedRole.is_delegated_path: some pattern has as many segments as the
\* path and matches it segment by segment.
is_delegated_path(paths, path) ==
    \E pat \in paths :
        /\ Len(pat) = Len(path)
        /\ \A i \in 1..Len(pat) : fnmatch(path[i], pat[i])

\* line 187: delegations.get_roles_for_target(usage_pattern)
roles_for_usage(usage) ==
    {r \in Range(DelegatedRoles) : is_delegated_path(r.paths, usage_pattern(usage))}

\* Targets listed by the delegated roles that match a usage pattern.
DelegatedTargets ==
    {e.target : e \in UNION {r.targets :
                    r \in UNION {roles_for_usage(u) : u \in Range(Usages)}}}

TargetNames == Range(TopLevelTargets) \cup DelegatedTargets \cup SIGSTORE_TARGETS

\* The set update() is meant to leave in the targets directory: the top-level
\* targets plus the targets of the matching delegated roles.
ResolvedSet == Range(TopLevelTargets) \cup DelegatedTargets

VARIABLES
    now,          \* wall clock
    bundledRoot,  \* package resource sigstore._store/root.json
    homeRoot,     \* ~/.sigstore/root/targets/root.json (Absent or a document)
    repo,         \* content the repository's metadata lists for each target
    cacheDirs,    \* tuf_dir, tuf_dir/metadata and tuf_dir/targets exist
    metaRoot,     \* tuf_dir/metadata/root.json (Absent or a document)
    timestamp,    \* tuf_dir/metadata/timestamp.json: [kind, expires]
    targetsDir,   \* tuf_dir/targets: target name -> Absent or content
    targetsJson,  \* tuf_dir/metadata/targets.json exists
    everRefreshed,\* some refresh() has run against this cache
    pc,           \* each process's position
    fresh,        \* this process's _prepare_local_cache found no root.json
    checked,      \* document whose digest _prepare_local_cache compared
    trusted,      \* root.json the Updater of the current update() loaded
    gate,         \* outcome of _should_update() in the current/last update()
    todo,         \* targets the current _fetch_all_targets loop has left
    log,          \* Updater calls made by the current/last update()
    result        \* how the last finished call ended

vars == <<now, bundledRoot, homeRoot, repo, cacheDirs, metaRoot, timestamp,
          targetsDir, targetsJson, everRefreshed, pc, fresh, checked, trusted,
          gate, todo, log, result>>

env == <<bundledRoot, homeRoot, repo>>

(***************************************************************************)
(* Pure helpers                                                            *)
(***************************************************************************)
\* Variant of is_expired: a timestamp expiring at this very instant still
\* counts as valid.
is_expired_strict(expires, reference_time) == reference_time > expires

\* Timestamp.is_expired(): reference_time >= self.expires
is_expired(expires, reference_time) == reference_time >= expires

\* TrustUpdater._should_update: "True", "False", or "raise" when
\* Metadata.from_file cannot parse the file (nothing catches it).
should_update(ts, t) ==
    IF ts.kind = Absent THEN "True"
    ELSE IF ts.kind = Corrupt THEN "raise"
    ELSE IF is_expired(ts.expires, t) THEN "True"
    ELSE "False"

\* updater.find_cached_target: a local file whose hash matches the TargetFile.
find_cached_target(dir, target) ==
    /\ dir[target] # Absent
    /\ sha256(dir[target]) = sha256(repo[target])

Entry(op, target, content) == [op |-> op, target |-> target, content |-> content]

(***************************************************************************)
(* Initial state: a fresh cache path, no process constructed yet.  The     *)
(* bundled root is the pinned one or a tampered one; the file read by      *)
(* Store._read_binary("root.json") may be missing or hold either document. *)
(* Under Spec one command runs at a time: "p1" is run (and re-run), "p2"   *)
(* is never launched ("off").                                              *)
(***************************************************************************)
NoLog == <<>>

Init ==
    /\ now = 0
    /\ bundledRoot \in {"root4", "rootTampered"}
    /\ homeRoot \in {Absent, "root4", "rootTampered"}
    /\ repo \in {r \in [TargetNames -> {"bundled", "current"}] :
                    \A t \in TargetNames \ SIGSTORE_TARGETS : r[t] = "current"}
    /\ cacheDirs = FALSE
    /\ metaRoot = Absent
    /\ timestamp = NoTimestamp
    /\ targetsDir = [t \in TargetNames |-> Absent]
    /\ targetsJson = FALSE
    /\ everRefreshed = FALSE
    /\ pc = [p \in Procs |-> IF p = "p1" THEN "new" ELSE "off"]
    /\ fresh = [p \in Procs |-> FALSE]
    /\ checked = [p \in Procs |-> Absent]
    /\ trusted = [p \in Procs |-> Absent]
    /\ gate = [p \in Procs |-> "none"]
    /\ todo = [p \in Procs |-> <<>>]
    /\ log = [p \in Procs |-> NoLog]
    /\ result = [p \in Procs |-> "none"]

(***************************************************************************)
(* TrustUpdater.__init__ -> _prepare_local_cache, one step per file-system *)
(* operation.                                                              *)
(***************************************************************************)
\* Variant of after_exists: the cache is populated on every construction.
after_exists_always_copy(root) == "mkdir"

\* line 61: the copying is skipped when metadata/root.json exists.
after_exists(root) == IF root = Absent THEN "mkdir" ELSE "digest"

\* lines 58-61: if not tuf_root.exists()
prepare_exists(p) ==
    /\ pc[p] = "new"
    /\ fresh' = [fresh EXCEPT ![p] = (metaRoot = Absent)]
    /\ pc' = [pc EXCEPT ![p] = after_exists(metaRoot)]
    /\ UNCHANGED <<everRefreshed, targetsJson,
                   now, env, cacheDirs, metaRoot, timestamp, targetsDir,
                   checked, trusted, gate, todo, log, result>>

\* lines 62-64: the three mkdir(exist_ok=True)
prepare_mkdir(p) ==
    /\ pc[p] = "mkdir"
    /\ cacheDirs' = TRUE
    /\ pc' = [pc EXCEPT ![p] = "copy_root"]
    /\ UNCHANGED <<everRefreshed, targetsJson,
                   now, env, metaRoot, timestamp, targetsDir, fresh,
                   checked, trusted, gate, todo, log, result>>

\* lines 70-71: shutil.copy2(bundled root.json, metadata_dir)
prepare_copy_root(p) ==
    /\ pc[p] = "copy_root"
    /\ metaRoot' = bundledRoot
    /\ pc' = [pc EXCEPT ![p] = "copy_targets"]
    /\ UNCHANGED <<everRefreshed, targetsJson,
                   now, env, cacheDirs, timestamp, targetsDir, fresh,
                   checked, trusted, gate, todo, log, result>>

\* lines 72-74: shutil.copy2 of every bundled target into targets_dir
prepare_copy_targets(p) ==
    /\ pc[p] = "copy_targets"
    /\ targetsDir' = [t \in TargetNames |->
                        IF t \in SIGSTORE_TARGETS THEN "bundled" ELSE targetsDir[t]]
    /\ pc' = [pc EXCEPT ![p] = "digest"]
    /\ UNCHANGED <<everRefreshed, targetsJson,
                   now, env, cacheDirs, metaRoot, timestamp, fresh,
                   checked, trusted, gate, todo, log, result>>

\* Store._read_binary("root.json"): the bytes of
\* ~/.sigstore/root/targets/root.json, or FileNotFoundError.
read_binary == homeRoot

\* lines 82-89: outcome of the digest check on the bytes read.
digest_check(bytes) ==
    IF bytes = Absent THEN "FileNotFoundError"
    ELSE IF ~(sha256(bytes) = EXPECTED_ROOT_DIGEST) THEN "SystemExit"
    ELSE "ok"

prepare_digest(p) ==
    /\ pc[p] = "digest"
    /\ checked' = [checked EXCEPT ![p] = read_binary]
    /\ LET outcome == digest_check(read_binary) IN
         /\ pc' = [pc EXCEPT ![p] = CASE outcome = "ok" -> "ready"
                                      [] outcome = "SystemExit" -> "exited"
                                      [] OTHER -> "failed"]
         /\ result' = [result EXCEPT ![p] = IF outcome = "ok" THEN "none" ELSE outcome]
    /\ UNCHANGED <<everRefreshed, targetsJson,
                   now, env, cacheDirs, metaRoot, timestamp, targetsDir,
                   fresh, trusted, gate, todo, log>>

(***************************************************************************)
(* TrustUpdater.update                                                     *)
(***************************************************************************)
\* Variant of after_gate: the early return of line 114 is lost.
after_gate_no_return(g) == IF g = "raise" THEN "ready" ELSE "refresh"

\* lines 113-114: where update() goes on each outcome of _should_update().
after_gate(g) == IF g = "True" THEN "refresh" ELSE "ready"

\* lines 113-121: the staleness gate and the construction of the Updater,
\* which loads metadata/root.json as its trusted root.
update(p) ==
    /\ pc[p] = "ready"
    /\ LET g == should_update(timestamp, now) IN
         /\ gate' = [gate EXCEPT ![p] = g]
         /\ pc' = [pc EXCEPT ![p] = after_gate(g)]
         /\ result' = [result EXCEPT ![p] =
                          IF after_gate(g) = "refresh" THEN "none"
                          ELSE IF g = "raise" THEN "DeserializationError"
                          ELSE "returned"]
         /\ trusted' = [trusted EXCEPT ![p] =
                          IF after_gate(g) = "refresh" THEN metaRoot ELSE Absent]
    /\ log' = [log EXCEPT ![p] = NoLog]
    /\ todo' = [todo EXCEPT ![p] = <<>>]
    /\ UNCHANGED <<everRefreshed, targetsJson,
                   now, env, cacheDirs, metaRoot, timestamp, targetsDir,
                   fresh, checked>>

\* Expiry instants a fetched timestamp can carry.
Expiries == 1..(MaxTime + 1)

\* Variant of persist_timestamp: the fetched timestamp is not written.
persist_timestamp_dropped(old, expires) == old

\* refresh() persists the timestamp it fetched over the cached one.
persist_timestamp(old, expires) == SignedTimestamp(expires)

\* Variant of on_refresh_error: the failed refresh() is attempted again.
on_refresh_error_retry == "refresh"

\* Variant of on_refresh_error: the failure is caught and update() goes on.
on_refresh_error_swallowed == "loaded"

\* line 128: nothing catches what refresh() raises; update() ends there.
on_refresh_error == "ready"

\* line 128: updater.refresh().  It succeeds (the final timestamp is not
\* expired, the root may have rotated), or raises a verification failure
\* (RepositoryError) or a network failure (DownloadError); a failing refresh
\* may already have persisted the timestamp it fetched (each role's file is
\* written as soon as that role is verified).
refresh(p) ==
    /\ pc[p] = "refresh"
    /\ everRefreshed' = TRUE
    /\ \/ /\ \E e \in Expiries :
                /\ e > now
                /\ timestamp' = persist_timestamp(timestamp, e)
          /\ metaRoot' \in {metaRoot, "root5"}
          /\ targetsJson' = TRUE
          /\ log' = [log EXCEPT ![p] = Append(@, Entry("refresh", "", "ok"))]
          /\ pc' = [pc EXCEPT ![p] = "loaded"]
          /\ UNCHANGED result
       \/ /\ \E err \in {"RepositoryError", "DownloadError"} :
                /\ log' = [log EXCEPT ![p] = Append(@, Entry("refresh", "", err))]
                /\ result' = [result EXCEPT ![p] =
                                 IF on_refresh_error = "ready" THEN err ELSE "none"]
          /\ \/ UNCHANGED timestamp
             \/ \E e \in Expiries : timestamp' = persist_timestamp(timestamp, e)
          /\ pc' = [pc EXCEPT ![p] = on_refresh_error]
          /\ UNCHANGED <<metaRoot, targetsJson>>
    /\ UNCHANGED <<now, env, cacheDirs, targetsDir, fresh, checked, trusted,
                   gate, todo>>

\* lines 150-170: targets.json is read, then pdb.set_trace() stops the call:
\* the debugger session continues it into _fetch_all_targets over the
\* top-level listing, or quits it (BdbQuit).
breakpoint(p) ==
    /\ pc[p] = "loaded"
    /\ \/ /\ pc' = [pc EXCEPT ![p] = "fetch"]
          /\ todo' = [todo EXCEPT ![p] = TopLevelTargets]
          /\ UNCHANGED result
       \/ /\ pc' = [pc EXCEPT ![p] = "ready"]
          /\ result' = [result EXCEPT ![p] = "BdbQuit"]
          /\ UNCHANGED todo
    /\ UNCHANGED <<everRefreshed, targetsJson,
                   now, env, cacheDirs, metaRoot, timestamp, targetsDir,
                   fresh, checked, trusted, gate, log>>

\* Variant of download_target: the stale local copy is removed before the
\* fetched bytes are verified.
download_target_unlink_first(dir, target, content) ==
    IF sha256(content) = sha256(repo[target])
    THEN [dir EXCEPT ![target] = content]
    ELSE [dir EXCEPT ![target] = Absent]

\* Variant of download_target: the bytes are written before they are verified.
download_target_unverified(dir, target, content) ==
    [dir EXCEPT ![target] = content]

\* updater.download_target: the fetched bytes are verified against the
\* TargetFile's hash before they are written to the targets directory.
download_target(dir, target, content) ==
    IF sha256(content) = sha256(repo[target])
    THEN [dir EXCEPT ![target] = content]
    ELSE dir

\* Variant of on_download_error: the failure is caught per target and the
\* loop goes on with the next one.
on_download_error_continue == "fetch"

\* line 166: nothing catches what download_target raises; the loop and
\* update() end there.
on_download_error == "ready"

\* Variant of on_no_targetinfo: the message is printed and the loop goes on
\* with the next target.
on_no_targetinfo_skip == "fetch"

\* lines 159-163: without target_info the process exits with status 1.
on_no_targetinfo == "exited"

\* Variant of needs_download: every target is downloaded, cached or not.
needs_download_always(cached) == TRUE

\* line 165: if not cached_target
needs_download(cached) == ~cached

\* lines 157-166: one iteration of the loop of _fetch_all_targets.
fetch_target(p) ==
    /\ pc[p] = "fetch"
    /\ todo[p] # <<>>
    /\ LET target == Head(todo[p])
           cached == find_cached_target(targetsDir, target)
           looked == Append(log[p], Entry("get_targetinfo", target, "found"))
           probed == Append(looked, Entry("find_cached_target", target,
                                          IF cached THEN "hit" ELSE "miss"))
       IN
       \/ \* lines 159-163: no target_info
          /\ log' = [log EXCEPT ![p] =
                        Append(@, Entry("get_targetinfo", target, "None"))]
          /\ pc' = [pc EXCEPT ![p] = on_no_targetinfo]
          /\ result' = [result EXCEPT ![p] =
                           IF on_no_targetinfo = "exited" THEN "SystemExit"
                           ELSE "none"]
          /\ todo' = [todo EXCEPT ![p] =
                         IF on_no_targetinfo = "exited" THEN @ ELSE Tail(@)]
          /\ UNCHANGED targetsDir
       \/ \* lines 164-165: a cached copy matches
          /\ ~needs_download(cached)
          /\ log' = [log EXCEPT ![p] = probed]
          /\ todo' = [todo EXCEPT ![p] = Tail(@)]
          /\ UNCHANGED <<pc, result, targetsDir>>
       \/ \* line 166: download_target, served some bytes
          /\ needs_download(cached)
          /\ \E served \in Contents :
               /\ log' = [log EXCEPT ![p] =
                             Append(probed,
                                    Entry("download_target", target, served))]
               /\ targetsDir' = download_target(targetsDir, target, served)
               /\ IF sha256(served) = sha256(repo[target])
                  THEN UNCHANGED <<pc, result>>
                  ELSE /\ pc' = [pc EXCEPT ![p] = on_download_error]
                       /\ result' = [result EXCEPT ![p] =
                                        IF on_download_error = "ready"
                                        THEN "LengthOrHashMismatchError"
                                        ELSE "none"]
          /\ todo' = [todo EXCEPT ![p] = Tail(@)]
       \/ \* line 166: download_target, the transport fails
          /\ needs_download(cached)
          /\ log' = [log EXCEPT ![p] =
                        Append(probed, Entry("download_target", target, ""))]
          /\ pc' = [pc EXCEPT ![p] = "ready"]
          /\ result' = [result EXCEPT ![p] = "DownloadError"]
          /\ todo' = [todo EXCEPT ![p] = Tail(@)]
          /\ UNCHANGED targetsDir
    /\ UNCHANGED <<everRefreshed, targetsJson,
                   now, env, cacheDirs, metaRoot, timestamp, fresh, checked,
                   trusted, gate>>

\* lines 182-187: the walk over the usages evaluates targets_md.delegations
\* for the first usage, an attribute Metadata does not have: AttributeError
\* ends update() before any role is looked up.
delegation_walk(p) ==
    /\ pc[p] = "fetch"
    /\ todo[p] = <<>>
    /\ log' = [log EXCEPT ![p] =
                  Append(@, Entry("targets_md.delegations", Head(Usages),
                                  "AttributeError"))]
    /\ pc' = [pc EXCEPT ![p] = "ready"]
    /\ result' = [result EXCEPT ![p] = "AttributeError"]
    /\ UNCHANGED <<everRefreshed, targetsJson,
                   now, env, cacheDirs, metaRoot, timestamp, targetsDir,
                   fresh, checked, trusted, gate, todo>>

\* lines 197-209: TrustUpdater.is_created.  The method is a classmethod
\* whose only parameter is tuf_dir, so the class is bound to tuf_dir: called
\* with a directory it raises TypeError (one positional argument too many),
\* called without one it raises TypeError in Path(tuf_dir), tuf_dir being the
\* class.  timestamp_path.exists() is never reached.
is_created(tuf_dir_given, ts) ==
    IF tuf_dir_given THEN "TypeError" ELSE "TypeError"

\* A command calls TrustUpdater.is_created before constructing a TrustUpdater;
\* the uncaught exception ends it.
is_created_call(p) ==
    /\ pc[p] = "new"
    /\ \E tuf_dir_given \in BOOLEAN :
         LET answer == is_created(tuf_dir_given, timestamp) IN
         /\ result' = [result EXCEPT ![p] = answer]
         /\ pc' = [pc EXCEPT ![p] =
                      IF answer = "TypeError" THEN "failed" ELSE "new"]
    /\ UNCHANGED <<everRefreshed, targetsJson,
                   now, env, cacheDirs, metaRoot, timestamp, targetsDir,
                   fresh, checked, trusted, gate, todo, log>>

(***************************************************************************)
(* Environment                                                             *)
(***************************************************************************)
\* The process ends and the command is run again: a new TrustUpdater.
restart(p) ==
    /\ pc[p] \in {"ready", "exited", "failed"}
    /\ pc' = [pc EXCEPT ![p] = "new"]
    /\ fresh' = [fresh EXCEPT ![p] = FALSE]
    /\ checked' = [checked EXCEPT ![p] = Absent]
    /\ trusted' = [trusted EXCEPT ![p] = Absent]
    /\ gate' = [gate EXCEPT ![p] = "none"]
    /\ todo' = [todo EXCEPT ![p] = <<>>]
    /\ log' = [log EXCEPT ![p] = NoLog]
    /\ result' = [result EXCEPT ![p] = "none"]
    /\ UNCHANGED <<everRefreshed, targetsJson,
                   now, env, cacheDirs, metaRoot, timestamp, targetsDir>>

\* The wall clock advances.
tick ==
    /\ now < MaxTime
    /\ now' = now + 1
    /\ UNCHANGED <<everRefreshed, targetsJson,
                   env, cacheDirs, metaRoot, timestamp, targetsDir, pc, fresh,
                   checked, trusted, gate, todo, log, result>>

\* The cached timestamp.json is damaged on disk.
damage_timestamp ==
    /\ timestamp.kind = "signed"
    /\ timestamp' = CorruptTimestamp
    /\ UNCHANGED <<everRefreshed, targetsJson,
                   now, env, cacheDirs, metaRoot, targetsDir, pc, fresh,
                   checked, trusted, gate, todo, log, result>>

Next ==
    \/ \E p \in Procs :
         \/ prepare_exists(p)
         \/ prepare_mkdir(p)
         \/ prepare_copy_root(p)
         \/ prepare_copy_targets(p)
         \/ prepare_digest(p)
         \/ update(p)
         \/ refresh(p)
         \/ breakpoint(p)
         \/ fetch_target(p)
         \/ delegation_walk(p)
         \/ is_created_call(p)
         \/ restart(p)
    \/ tick
    \/ damage_timestamp

Spec == Init /\ [][Next]_vars

(***************************************************************************)
(* Two commands sharing one cache path: both processes are launched.  The  *)
(* bundle and the file read by the digest check are the pinned root, and   *)
(* the repository lists a newer copy of every target.                      *)
(***************************************************************************)
InitShared ==
    /\ now = 0
    /\ bundledRoot = "root4"
    /\ homeRoot = "root4"
    /\ repo = [t \in TargetNames |-> "current"]
    /\ cacheDirs = FALSE
    /\ metaRoot = Absent
    /\ timestamp = NoTimestamp
    /\ targetsDir = [t \in TargetNames |-> Absent]
    /\ targetsJson = FALSE
    /\ everRefreshed = FALSE
    /\ pc = [p \in Procs |-> "new"]
    /\ fresh = [p \in Procs |-> FALSE]
    /\ checked = [p \in Procs |-> Absent]
    /\ trusted = [p \in Procs |-> Absent]
    /\ gate = [p \in Procs |-> "none"]
    /\ todo = [p \in Procs |-> <<>>]
    /\ log = [p \in Procs |-> NoLog]
    /\ result = [p \in Procs |-> "none"]

SpecShared == InitShared /\ [][Next]_vars

(***************************************************************************)
(* Properties                                                              *)
(***************************************************************************)
\* _prepare_local_cache has run to its end in process p.
Prepared(p) == pc[p] \in {"ready", "exited", "failed", "refresh", "loaded", "fetch"}

\* A cache the metadata client can start from: metadata/root.json together
\* with the copied default targets.
UsableCache ==
    /\ metaRoot # Absent
    /\ \A t \in SIGSTORE_TARGETS : targetsDir[t] # Absent

Last(s) == s[Len(s)]

TargetOpNames == {"get_targetinfo", "find_cached_target", "download_target"}

\* Positions of the target operations in the log of p's update().
TargetOps(p) == {i \in 1..Len(log[p]) : log[p][i].op \in TargetOpNames}

\* Positions of the network operations in the log of p's update().
NetworkOps(p) ==
    {i \in 1..Len(log[p]) : log[p][i].op \in {"refresh", "download_target"}}

\* C1: when the bundled root document's SHA-256 digest differs from
\* EXPECTED_ROOT_DIGEST, preparing a fresh cache path ends in the bootstrap
\* integrity failure (sys.exit(1)) and leaves no usable cache behind.
C1_BootstrapIntegrity ==
    \A p \in Procs :
        (/\ Prepared(p)
         /\ fresh[p]
         /\ sha256(bundledRoot) # EXPECTED_ROOT_DIGEST)
        => (pc[p] = "exited" /\ ~UsableCache)

\* C2: update() looks up or downloads a target only if the root document its
\* Updater started from is the document whose digest _prepare_local_cache
\* compared to EXPECTED_ROOT_DIGEST.
C2_TrustedRootIsCheckedRoot ==
    \A p \in Procs : TargetOps(p) # {} => trusted[p] = checked[p]

\* C3: every update() that returns success, on a cache whose metadata have
\* been refreshed, leaves every target of the resolved set present in the
\* targets directory.
C3_SuccessMeansAllTargetsPresent ==
    \A p \in Procs :
        (result[p] = "returned" /\ targetsJson)
        => \A t \in ResolvedSet : targetsDir[t] # Absent

\* C4: within one update(), target operations happen only after that call's
\* refresh() succeeded; when refresh() raises, the call ends with that
\* failure as its outcome and without any target operation.
C4_TargetOpsOnlyAfterRefresh ==
    \A p \in Procs :
        /\ \A i \in TargetOps(p) :
               \E j \in 1..(i - 1) : log[p][j] = Entry("refresh", "", "ok")
        /\ \A j \in 1..Len(log[p]) :
               (log[p][j].op = "refresh" /\ log[p][j].content # "ok")
               => /\ TargetOps(p) = {}
                  /\ pc[p] = "ready"
                  /\ result[p] = log[p][j].content

\* A refresh() raised a verification failure and update() surfaced it.
C4_Witness ==
    \E p \in Procs :
        /\ log[p] = <<Entry("refresh", "", "RepositoryError")>>
        /\ result[p] = "RepositoryError"

\* C5: when _should_update() is false at the start of update(), the call
\* makes no refresh and no download and returns success.
C5_NoNetworkWhenFresh ==
    \A p \in Procs :
        gate[p] = "False"
        => /\ NetworkOps(p) = {}
           /\ pc[p] = "ready"
           /\ result[p] = "returned"

\* An update() found an unexpired timestamp and returned.
C5_Witness ==
    \E p \in Procs :
        /\ gate[p] = "False"
        /\ result[p] = "returned"
        /\ timestamp.kind = "signed"
        /\ ~is_expired(timestamp.expires, now)

\* C6: _should_update() is true when no timestamp metadata is cached, and
\* with a cached timestamp it is true exactly when the expiry instant is at
\* or before the current time.
C6_StalenessDecision ==
    [][\A p \in Procs :
          update(p) =>
            /\ timestamp.kind = Absent => gate'[p] = "True"
            /\ timestamp.kind = "signed" =>
                 (gate'[p] = "True" <=> timestamp.expires <= now)
            /\ timestamp.kind = "signed" =>
                 (gate'[p] = "False" <=> timestamp.expires > now)]_vars

\* An update() decided to refresh on a timestamp expiring at that instant.
C6_Witness ==
    \E p \in Procs :
        /\ pc[p] = "refresh"
        /\ gate[p] = "True"
        /\ timestamp.kind = "signed"
        /\ timestamp.expires = now

\* C7: _should_update() never throws: with a corrupt or unparseable
\* metadata/timestamp.json it answers true ("needs refresh").
C7_CorruptTimestampNeedsRefresh ==
    \A p \in Procs : gate[p] # "raise" /\ result[p] # "DeserializationError"

\* C8: _should_update() is true before any refresh, false right after a
\* successful refresh (whose timestamp expires in the future), and true again
\* once the clock reaches that expiry.
C8_StalenessOverARun ==
    [][/\ ~everRefreshed => should_update(timestamp, now) = "True"
       /\ \A p \in Procs :
            (refresh(p) /\ pc'[p] = "loaded")
            => should_update(timestamp', now') = "False"
       /\ (/\ tick
           /\ timestamp.kind = "signed"
           /\ now' >= timestamp.expires)
          => should_update(timestamp', now') = "True"]_vars

\* A call was gated off by an unexpired timestamp, and the clock has since
\* reached its expiry: a refresh is due again.
C8_Witness ==
    \E p \in Procs :
        /\ gate[p] = "False"
        /\ everRefreshed
        /\ timestamp.kind = "signed"
        /\ now = timestamp.expires
        /\ should_update(timestamp, now) = "True"

\* The download that p's log ends with was served bytes that do not match
\* the target's record.
MismatchedDownload(e) ==
    /\ e.op = "download_target"
    /\ e.content \in Contents
    /\ sha256(e.content) # sha256(repo[e.target])

\* C9: when the fetched content does not match the target record's digest,
\* update() reports the target integrity failure and the step leaves the
\* targets directory as it was: the content is not placed and every target
\* present before is present with the same content.
C9_MismatchLeavesCacheIntact ==
    [][\A p \in Procs :
          (/\ fetch_target(p)
           /\ MismatchedDownload(Last(log'[p])))
          => /\ result'[p] = "LengthOrHashMismatchError"
             /\ pc'[p] = "ready"
             /\ targetsDir' = targetsDir]_vars

\* A call failed on mismatching bytes for one target while another target
\* sits verified in the cache, and the mismatching bytes are not on disk.
C9_Witness ==
    \E p \in Procs :
        /\ result[p] = "LengthOrHashMismatchError"
        /\ MismatchedDownload(Last(log[p]))
        /\ targetsDir[Last(log[p]).target] # Last(log[p]).content
        /\ \E t \in TargetNames \ {Last(log[p]).target} :
               find_cached_target(targetsDir, t)

C11_DownloadIffNotCached ==
    \A p \in Procs :
        \A i \in 1..Len(log[p]) :
            /\ log[p][i].op = "download_target"
               => /\ i > 1
                  /\ log[p][i - 1] =
                         Entry("find_cached_target", log[p][i].target, "miss")
            /\ log[p][i] = Entry("find_cached_target", log[p][i].target, "miss")
               => /\ i < Len(log[p])
                  /\ log[p][i + 1].op = "download_target"
                  /\ log[p][i + 1].target = log[p][i].target
            /\ log[p][i] = Entry("find_cached_target", log[p][i].target, "hit")
               => \A j \in 1..Len(log[p]) :
                      ~(/\ log[p][j].op = "download_target"
                        /\ log[p][j].target = log[p][i].target)

\* One update() found a target cached and downloaded another one.
C11_Witness ==
    \E p \in Procs :
        \E i, j \in 1..Len(log[p]) :
            /\ log[p][i].op = "find_cached_target"
            /\ log[p][i].content = "hit"
            /\ log[p][j].op = "download_target"
            /\ targetsDir[log[p][j].target] = "current"

\* p's update() went into the walk over the usages and has ended.
Walked(p) ==
    /\ pc[p] = "ready"
    /\ \E i \in 1..Len(log[p]) : log[p][i].op = "targets_md.delegations"

\* A role whose patterns hold no "**" segment is the more specific one.
IsSpecific(r) == \A pat \in r.paths : \A i \in 1..Len(pat) : pat[i] # "**"

\* Targets two roles matching usage u list with different hashes.
Overlapping(u) ==
    {t \in DelegatedTargets :
        \E r1, r2 \in roles_for_usage(u) :
            \E e1 \in r1.targets, e2 \in r2.targets :
                /\ e1.target = t /\ e2.target = t
                /\ sha256(e1.content) # sha256(e2.content)}

\* C12: when two delegated roles matching a usage list the same target with
\* different digests, the entry of the more specific delegation is the one
\* resolved and fetched into the cache.
C12_MostSpecificDelegationWins ==
    \A p \in Procs :
        Walked(p) =>
            \A u \in Range(Usages) : \A t \in Overlapping(u) :
                \A r \in roles_for_usage(u) : \A e \in r.targets :
                    (IsSpecific(r) /\ e.target = t)
                    => /\ targetsDir[t] # Absent
                       /\ sha256(targetsDir[t]) = sha256(e.content)

\* C13: for every delegated role matching a usage pattern, exactly the listed
\* targets whose status is active are resolved and fetched; a listed target
\* that is not active is not fetched.
C13_ActiveTargetsOfMatchingRoles ==
    \A p \in Procs :
        Walked(p) =>
            \A u \in Range(Usages) : \A r \in roles_for_usage(u) :
                \A e \in r.targets :
                    (e.status = "Active") <=> (targetsDir[e.target] # Absent)

\* C14: resolving a usage no delegated role matches, against a non-empty
\* delegation graph, raises nothing and does not end the process.
C14_UnmatchedUsageIsNotAnError ==
    \A p \in Procs :
        \A i \in 1..Len(log[p]) :
            (/\ log[p][i].op = "targets_md.delegations"
             /\ roles_for_usage(log[p][i].target) = {}
             /\ Len(DelegatedRoles) > 0)
            => /\ log[p][i].content # "AttributeError"
               /\ result[p] \notin {"AttributeError", "SystemExit"}

\* The on-disk contents of the cache directory.
CacheFiles == <<cacheDirs, metaRoot, timestamp, targetsDir, targetsJson>>

\* C15: a _prepare_local_cache that finds metadata/root.json (as the second
\* preparation of a path does) copies nothing and leaves every file of the
\* cache as it was: it goes straight to the digest check, which only reads.
C15_PrepareIsIdempotent ==
    [][\A p \in Procs :
          /\ (prepare_exists(p) /\ metaRoot # Absent)
             => (pc'[p] = "digest" /\ CacheFiles' = CacheFiles)
          /\ prepare_digest(p) => CacheFiles' = CacheFiles
          /\ pc[p] \in {"mkdir", "copy_root", "copy_targets"} => fresh[p]]_vars

\* A cache that was prepared, refreshed and had a target replaced has been
\* prepared a second time.
C15_Witness ==
    \E p \in Procs :
        /\ pc[p] = "ready"
        /\ ~fresh[p]
        /\ checked[p] = "root4"
        /\ targetsJson
        /\ \E t \in SIGSTORE_TARGETS : targetsDir[t] = "current"

\* C16: for two processes sharing one cache path, under every interleaving
\* of one's _prepare_local_cache steps with the other's preparation and
\* update(), the bundled copy never replaces a metadata/root.json or a target
\* file that a completed refresh has written.
C16_BundledCopyNeverOverwrites ==
    [][\A p \in Procs :
          /\ prepare_copy_root(p)
             => (targetsJson => metaRoot' = metaRoot)
          /\ prepare_copy_targets(p)
             => \A t \in TargetNames :
                    targetsDir[t] = "current" => targetsDir'[t] = "current"]_vars

\* A step of p's update().
UpdateStep(p) ==
    \/ update(p) \/ refresh(p) \/ breakpoint(p) \/ fetch_target(p)
    \/ delegation_walk(p)

\* C17: no step of an update() call, successful or failed, removes a cached
\* target from the targets directory: a call only adds or replaces files.
C17_CachedTargetsAreNeverRemoved ==
    [][\A p \in Procs :
          UpdateStep(p) =>
              \A t \in TargetNames :
                  targetsDir[t] # Absent => targetsDir'[t] # Absent]_vars

\* A call failed to replace a stale bundled target, which is still cached,
\* after it had replaced another one.
C17_Witness ==
    \E p \in Procs :
        /\ result[p] = "LengthOrHashMismatchError"
        /\ targetsDir[Last(log[p]).target] = "bundled"
        /\ \E t \in TargetNames : targetsDir[t] = "current"

\* A refresh() or download_target that failed in the transport.
NetworkFailure(e) ==
    \/ e.op = "refresh" /\ e.content = "DownloadError"
    \/ e.op = "download_target" /\ e.content = ""

\* C18: within one update() refresh() is invoked at most once, no target is
\* downloaded twice, and a network failure of refresh() or download_target
\* is the last thing the call does: it ends with that failure as its outcome.
C18_NoAutomaticRetry ==
    \A p \in Procs :
        /\ Cardinality({i \in 1..Len(log[p]) : log[p][i].op = "refresh"}) <= 1
        /\ \A i, j \in 1..Len(log[p]) :
               (/\ log[p][i].op = "download_target"
                /\ log[p][j].op = "download_target"
                /\ log[p][i].target = log[p][j].target) => i = j
        /\ \A i \in 1..Len(log[p]) :
               NetworkFailure(log[p][i])
               => /\ i = Len(log[p])
                  /\ pc[p] = "ready"
                  /\ result[p] = "DownloadError"

\* A call ended on a download whose transport failed, after its one refresh.
C18_Witness ==
    \E p \in Procs :
        /\ result[p] = "DownloadError"
        /\ Len(log[p]) > 1
        /\ log[p][1] = Entry("refresh", "", "ok")
        /\ Last(log[p]).op = "download_target"
        /\ NetworkFailure(Last(log[p]))

\* C19: when get_targetinfo returns nothing for a listed target, the process
\* exits with status 1 at that target: the lookup is the last Updater call,
\* the target and those after it stay unprocessed, and what the call
\* downloaded before is still in the cache.
C19_MissingTargetInfoExits ==
    \A p \in Procs :
        \A i \in 1..Len(log[p]) :
            (log[p][i].op = "get_targetinfo" /\ log[p][i].content = "None")
            => /\ i = Len(log[p])
               /\ pc[p] = "exited"
               /\ result[p] = "SystemExit"
               /\ todo[p] # <<>>
               /\ Head(todo[p]) = log[p][i].target
               /\ \A t \in Range(todo[p]) :
                      \A j \in 1..Len(log[p]) :
                          log[p][j].target = t
                          => (j = i /\ t = log[p][i].target)
               /\ \A j \in 1..(i - 1) :
                      (/\ log[p][j].op = "download_target"
                       /\ ~MismatchedDownload(log[p][j])
                       /\ ~NetworkFailure(log[p][j]))
                      => targetsDir[log[p][j].target] = log[p][j].content

\* The process exited on the second target of the listing, after downloading
\* the first and with a third left.
C19_Witness ==
    \E p \in Procs :
        /\ pc[p] = "exited"
        /\ Len(log[p]) > 1
        /\ Last(log[p]) = Entry("get_targetinfo", Head(todo[p]), "None")
        /\ Len(todo[p]) > 1
        /\ \E j \in 1..Len(log[p]) :
               /\ log[p][j].op = "download_target"
               /\ targetsDir[log[p][j].target] = log[p][j].content

\* C20: TrustUpdater.is_created returns true exactly when timestamp metadata
\* is stored in the cache: false before any update() stored one, true after.
C20_IsCreatedTellsTimestampStored ==
    [][\A p \in Procs :
          is_created_call(p)
          => result'[p] = (IF timestamp.kind = Absent THEN "False" ELSE "True")]_vars

====
